---- MODULE Spec2Model ----
(***************************************************************************)
(* Model of citations.py: the Universal Citekey algorithm (CRC-32 based    *)
(* hash, citekey codec), the Papers database access (list_citations,       *)
(* find_pdf, scoped connections) and the InsertCitationCommand quick-panel *)
(* state machine with its pyparsing citation-group scanner.                *)
(*                                                                         *)
(* Python strings are sequences of one-character strings, so that          *)
(* splitting, slicing, formatting and scanning are computed rather than    *)
(* assumed.  Python's None is the value None below, and "%s" % None is the *)
(* four characters N, o, n, e.                                             *)
(***************************************************************************)
EXTENDS Integers, Sequences, FiniteSets, TLC

VARIABLES
    kIn,        \* SpecKey: the arguments (base, year, doi, title)
    kPc,        \* SpecKey: position of the codec driver
    kTitleHash, \* SpecKey: gen_title_hash(title)
    kDoiHash,   \* SpecKey: gen_doi_hash(doi)
    kKey,       \* SpecKey: gen_citekey(base, year, doi, title)
    kSplit,     \* SpecKey: split_key(kKey)
    pubs,       \* the Publication table, in ROWID order
    pdfs,       \* the PDF table: rows [object_id, path]
    pc,         \* position inside get_citations / open_citekey
    conn,       \* number of open sqlite3 connections
    arg,        \* the citekey passed to open_citekey
    lst,        \* what get_citations returns or raises
    fres,       \* what find_pdf returned or raised inside open_citekey
    viewer,     \* the path handed to subprocess.call, None before
    view,       \* the active view: line start, line text, selection a and b
    cPc,        \* InsertCitationCommand: "start", "panel" (quick panel shown),
                \* "timeout" (insert_citation_text scheduled), "done", "error"
    self_citations,  \* self.citations
    self_citekeys,   \* self.citekeys
    self_citekey,    \* self.citekey
    self_group,      \* self.group
    self_location,   \* self.location
    self_commands,   \* self.commands
    citetext,   \* the text handed to insert_citation_text, None before
    nsel        \* number of citations selected in the quick panel so far

keyVars == <<kIn, kPc, kTitleHash, kDoiHash, kKey, kSplit>>

dbVars == <<pubs, pdfs, pc, conn, arg, lst, fres, viewer>>

cmdVars ==
    <<view, cPc, self_citations, self_citekeys, self_citekey, self_group,
      self_location, self_commands, citetext, nsel>>

vars == <<keyVars, dbVars, cmdVars>>

(***************************************************************************)
(* Python values                                                           *)
(***************************************************************************)
None == <<"NoneType">>

\* the characters with codes 32..126, in code order
Ascii ==
    <<" ", "!", "dquote", "#", "$", "%", "&", "'", "(", ")", "*", "+", ",", "-",
      ".", "/", "0", "1", "2", "3", "4", "5", "6", "7", "8", "9", ":", ";",
      "<", "=", ">", "?", "@", "A", "B", "C", "D", "E", "F", "G", "H", "I",
      "J", "K", "L", "M", "N", "O", "P", "Q", "R", "S", "T", "U", "V", "W",
      "X", "Y", "Z", "[", "bslash", "]", "^", "_", "bquote", "a", "b", "c", "d", "e",
      "f", "g", "h", "i", "j", "k", "l", "m", "n", "o", "p", "q", "r", "s",
      "t", "u", "v", "w", "x", "y", "z", "{", "|", "}", "~">>

\* ord(c) and chr(n) on the printable ASCII range (codes 32..126; the three
\* characters that cannot be written in a string literal are spelled out)
Ord(c) == 31 + (CHOOSE i \in 1..Len(Ascii) : Ascii[i] = c)

Chr(n) == Ascii[n - 31]

\* range(a, b) as a sequence
PyRange(a, b) == [i \in 1..(IF b > a THEN b - a ELSE 0) |-> a + i - 1]

Min(a, b) == IF a < b THEN a ELSE b

\* s[i:j] for 0 <= i, 0 <= j: never raises on a string, clips to its length
PySlice(s, i, j) == SubSeq(s, i + 1, Min(j, Len(s)))

\* "%s" % x
PyStr(x) == IF x = None THEN <<"N", "o", "n", "e">> ELSE x

\* truth value of a string-or-None
Truthy(x) == x # None /\ x # <<>>

Ok(v) == <<"ok", v>>

\* an exception; e is a tuple: the exception type, then its arguments
Raise(e) == <<"raise", e>>

IsOk(r) == r[1] = "ok"

\* position of the first c in s, 0 when there is none
RECURSIVE IndexFrom(_, _, _)
IndexFrom(s, c, i) ==
    IF i > Len(s) THEN 0
    ELSE IF s[i] = c THEN i
    ELSE IndexFrom(s, c, i + 1)

\* s.split(sep) for a one-character separator
RECURSIVE PySplit(_, _)
PySplit(s, sep) ==
    LET i == IndexFrom(s, sep, 1) IN
    IF i = 0 THEN <<s>>
    ELSE <<SubSeq(s, 1, i - 1)>> \o PySplit(SubSeq(s, i + 1, Len(s)), sep)

(***************************************************************************)
(* Universal Citekey Algorithm                                             *)
(***************************************************************************)
alphabet == [i \in 1..(Ord("z") + 1 - Ord("a")) |-> Chr(PyRange(Ord("a"), Ord("z") + 1)[i])]

title_suffix == [i \in 1..(Ord("w") + 1 - Ord("t")) |-> Chr(PyRange(Ord("t"), Ord("w") + 1)[i])]

doi_suffix == [i \in 1..(Ord("k") + 1 - Ord("b")) |-> Chr(PyRange(Ord("b"), Ord("k") + 1)[i])]

\* Unsigned 32-bit values are pairs <<high 16 bits, low 16 bits>>.
RECURSIVE XorBits(_, _, _)
XorBits(a, b, n) ==
    IF n = 0 THEN 0
    ELSE (((a % 2) + (b % 2)) % 2) + 2 * XorBits(a \div 2, b \div 2, n - 1)

Xor32(x, y) == <<XorBits(x[1], y[1], 16), XorBits(x[2], y[2], 16)>>

Shr32(x) == <<x[1] \div 2, (x[2] \div 2) + (x[1] % 2) * 32768>>

\* the reflected CRC-32 polynomial 0xEDB88320 and the mask 0xFFFFFFFF
CrcPoly == <<60856, 33568>>

Ones32 == <<65535, 65535>>

RECURSIVE CrcShift(_, _)
CrcShift(crc, n) ==
    IF n = 0 THEN crc
    ELSE CrcShift(IF crc[2] % 2 = 1 THEN Xor32(Shr32(crc), CrcPoly) ELSE Shr32(crc),
                  n - 1)

\* one byte at a time; the register is a pair of naturals (crc[1] < 0 never
\* holds: reading it evaluates the register before the next byte is taken)
RECURSIVE CrcBytes(_, _, _)
CrcBytes(crc, s, i) ==
    IF i > Len(s) \/ crc[1] < 0 THEN crc
    ELSE CrcBytes(CrcShift(Xor32(crc, <<0, Ord(s[i])>>), 8), s, i + 1)

\* zlib.crc32(bytes(s, "UTF-8")) & 0xffffffff, for ASCII text
gen_crc(s) == Xor32(CrcBytes(Ones32, s, 1), Ones32)

\* n % m for an unsigned 32-bit n and 0 < m < 2^15
Mod32(n, m) == (((n[1] % m) * (65536 % m)) + n[2]) % m

\* gen_hash with the modulus fixed at 26 * 4 whatever the suffix table
gen_hash_mod104(text, suffixes) ==
    LET n1 == gen_crc(text)
        n2 == Mod32(n1, Len(alphabet) * 4)
        n3 == n2 \div Len(alphabet)
        n4 == n2 % Len(alphabet)
    IN  <<suffixes[n3 + 1], alphabet[n4 + 1]>>

gen_hash(text, suffixes) ==
    LET n1 == gen_crc(text)
        n2 == Mod32(n1, Len(alphabet) * Len(suffixes))
        n3 == n2 \div Len(alphabet)
        n4 == n2 % Len(alphabet)
    IN  <<suffixes[n3 + 1], alphabet[n4 + 1]>>

gen_title_hash(title) == IF title = None THEN None ELSE gen_hash(title, title_suffix)

gen_doi_hash(doi) == IF doi = None THEN None ELSE gen_hash(doi, doi_suffix)

gen_citekey(base, year, doi, title) ==
    IF Truthy(doi)
    THEN PyStr(base) \o <<":">> \o PyStr(year) \o PyStr(gen_doi_hash(doi))
    ELSE PyStr(base) \o <<":">> \o PyStr(year) \o PyStr(gen_title_hash(title))

split_key(citekey) ==
    LET parts == PySplit(citekey, ":") IN
    IF Len(parts) # 2 THEN Raise(<<"ValueError">>)
    ELSE Ok(<<parts[1], PySlice(parts[2], 0, 4), PySlice(parts[2], 4, Len(parts[2]))>>)

\* values of the variables a specification does not use
KeyUnused ==
    /\ kIn = None
    /\ kPc = "unused"
    /\ kTitleHash = None
    /\ kDoiHash = None
    /\ kKey = None
    /\ kSplit = Raise(<<"unset">>)

DbUnused ==
    /\ pubs = <<>>
    /\ pdfs = <<>>
    /\ pc = "unused"
    /\ conn = 0
    /\ arg = None
    /\ lst = Raise(<<"unset">>)
    /\ fres = Raise(<<"unset">>)
    /\ viewer = None

CmdUnused ==
    /\ view = None
    /\ cPc = "unused"
    /\ self_citations = <<>>
    /\ self_citekeys = <<>>
    /\ self_citekey = None
    /\ self_group = <<>>
    /\ self_location = <<0, 0>>
    /\ self_commands = <<>>
    /\ citetext = None
    /\ nsel = 0

(***************************************************************************)
(* SpecKey: the codec functions applied to bounded arguments               *)
(***************************************************************************)
Bases == { <<"s", "m", "i", "t", "h">>, <<"l", "i">> }

Years == { <<"2", "0", "2", "0">>, <<"2", "0", "1", "9">> }

Dois == { None, <<>>, <<"1", "0", ".", "1", "/", "x">>, <<"1", "0", ".", "2", "/", "y">> }

Titles == { None, <<>>, <<"n", "e", "t", "s">>, <<"t", "r", "e", "e", "s">>, <<"e">> }

InitKey ==
    /\ kIn \in [base : Bases, year : Years, doi : Dois, title : Titles]
    /\ kPc = "start"
    /\ kTitleHash = None
    /\ kDoiHash = None
    /\ kKey = None
    /\ kSplit = Raise(<<"unset">>)
    /\ DbUnused
    /\ CmdUnused

CallTitleHash ==
    /\ kPc = "start"
    /\ kTitleHash' = gen_title_hash(kIn.title)
    /\ kPc' = "title_hashed"
    /\ UNCHANGED <<kIn, kDoiHash, kKey, kSplit>>
    /\ UNCHANGED <<dbVars, cmdVars>>

CallDoiHash ==
    /\ kPc = "title_hashed"
    /\ kDoiHash' = gen_doi_hash(kIn.doi)
    /\ kPc' = "hashed"
    /\ UNCHANGED <<kIn, kTitleHash, kKey, kSplit>>
    /\ UNCHANGED <<dbVars, cmdVars>>

CallGenCitekey ==
    /\ kPc = "hashed"
    /\ kKey' = gen_citekey(kIn.base, kIn.year, kIn.doi, kIn.title)
    /\ kPc' = "keyed"
    /\ UNCHANGED <<kIn, kTitleHash, kDoiHash, kSplit>>
    /\ UNCHANGED <<dbVars, cmdVars>>

CallSplitKey ==
    /\ kPc = "keyed"
    /\ kSplit' = split_key(kKey)
    /\ kPc' = "split"
    /\ UNCHANGED <<kIn, kTitleHash, kDoiHash, kKey>>
    /\ UNCHANGED <<dbVars, cmdVars>>

NextKey == CallTitleHash \/ CallDoiHash \/ CallGenCitekey \/ CallSplitKey

SpecKey == InitKey /\ [][NextKey]_vars

(***************************************************************************)
(* Papers Database Access                                                  *)
(***************************************************************************)
basepath == <<"/", "U", "s", "e", "r", "s", "/", "u", "s", "e", "r", "n", "a", "m", "e", "/", "P", "a", "p", "e", "r", "s", "2", "/">>

\* os.path.join(a, b) on POSIX
PathJoin(a, b) ==
    IF b # <<>> /\ b[1] = "/" THEN b
    ELSE IF a = <<>> \/ a[Len(a)] = "/" THEN a \o b
    ELSE a \o <<"/">> \o b

\* SQLite substr(s, start, n) for start >= 1; NULL for NULL
SqlSubstr(s, start, n) ==
    IF s = None THEN None ELSE SubSeq(s, start, Min(start + n - 1, Len(s)))

\* SQLite comparison in a WHERE clause: NULL never compares equal
SqlEq(a, b) == a # None /\ b # None /\ a = b

\* "%s %s" % (a, b)
Label(a, b) == PyStr(a) \o <<" ">> \o PyStr(b)

\* the body of the loop of list_citations for one row: the pair it yields, in a
\* one-element sequence, or nothing when the try block raises (date[2:6] on None)
ListRow(r) ==
    IF r.date = None THEN <<>>
    ELSE LET year == PySlice(r.date, 2, 6)
             citekey == gen_citekey(r.base, year, r.doi, r.canonical)
         IN  << <<Label(r.author_year, r.title), citekey>> >>

RECURSIVE ListFrom(_, _)
ListFrom(db, i) ==
    IF i > Len(db.pubs) THEN <<>>
    ELSE ListRow(db.pubs[i]) \o ListFrom(db, i + 1)

list_citations(db) == ListFrom(db, 1)

\* SELECT Path FROM PDF WHERE object_id = ?
RECURSIVE PdfPaths(_, _, _)
PdfPaths(db, rowid, j) ==
    IF j > Len(db.pdfs) THEN <<>>
    ELSE (IF db.pdfs[j].object_id = rowid THEN <<db.pdfs[j].path>> ELSE <<>>)
         \o PdfPaths(db, rowid, j + 1)

\* the coarse query without its year predicate
IsCandidate_BaseOnly(r, base, year) == SqlEq(r.base, base)

\* SELECT ROWID, canonical_title, doi FROM Publication
\* WHERE citekey_base = ? AND substr(publication_date, 3, 4) == ?
IsCandidate(r, base, year) ==
    /\ SqlEq(r.base, base)
    /\ SqlEq(SqlSubstr(r.date, 3, 4), year)

NoMatchingPdf(citekey) == Raise(<<"No matching PDF found for", citekey>>)

\* the loop giving up at the first hash match, with or without a PDF
RECURSIVE FindFrom_StopAtMatch(_, _, _, _, _, _)
FindFrom_StopAtMatch(db, citekey, base, year, citehash, i) ==
    IF i > Len(db.pubs) THEN NoMatchingPdf(citekey)
    ELSE LET r == db.pubs[i]
             paths == PdfPaths(db, i, 1)
         IN  IF /\ IsCandidate(r, base, year)
                /\ \/ citehash = gen_title_hash(r.canonical)
                   \/ citehash = gen_doi_hash(r.doi)
             THEN IF paths # <<>> THEN Ok(PathJoin(basepath, paths[1]))
                  ELSE NoMatchingPdf(citekey)
             ELSE FindFrom_StopAtMatch(db, citekey, base, year, citehash, i + 1)

\* the loop over the candidates, from row i on
RECURSIVE FindFrom(_, _, _, _, _, _)
FindFrom(db, citekey, base, year, citehash, i) ==
    IF i > Len(db.pubs) THEN NoMatchingPdf(citekey)
    ELSE LET r == db.pubs[i]
             paths == PdfPaths(db, i, 1)
         IN  IF /\ IsCandidate(r, base, year)
                /\ \/ citehash = gen_title_hash(r.canonical)
                   \/ citehash = gen_doi_hash(r.doi)
                /\ paths # <<>>
             THEN Ok(PathJoin(basepath, paths[1]))
             ELSE FindFrom(db, citekey, base, year, citehash, i + 1)

find_pdf(db, citekey) ==
    LET k == split_key(citekey) IN
    IF ~IsOk(k) THEN k
    ELSE FindFrom(db, citekey, k[2][1], k[2][2], k[2][3], 1)

\* reversed(l)
Reversed(l) == [i \in 1..Len(l) |-> l[Len(l) + 1 - i]]

(***************************************************************************)
(* SpecDb: get_citations and open_citekey on bounded stores                *)
(***************************************************************************)
MaxRecs == 2

smith == <<"s", "m", "i", "t", "h">>

trees == <<"t", "r", "e", "e", "s">>

\* rows of Publication: a DOI and a title; a title only, whose hash collides
\* with the first one's title hash; neither DOI nor title; a date too short
\* for a year; an empty date; a NULL date; another base and year, empty DOI
Shapes ==
    { [author_year |-> <<"P", "1">>, title |-> <<"T">>, canonical |-> trees,
       doi |-> <<"1", "0", ".", "2", "/", "y">>, base |-> smith,
       date |-> <<"9", "9", "2", "0", "2", "0">>],
      [author_year |-> <<"P", "2">>, title |-> <<"T">>, canonical |-> <<"e">>,
       doi |-> None, base |-> smith, date |-> <<"9", "9", "2", "0", "2", "0", "0", "1">>],
      [author_year |-> <<"P", "3">>, title |-> None, canonical |-> None,
       doi |-> None, base |-> smith, date |-> <<"9", "9", "2", "0", "2", "0">>],
      [author_year |-> <<"P", "4">>, title |-> <<"T">>, canonical |-> trees,
       doi |-> None, base |-> smith, date |-> <<"9", "9", "2", "0">>],
      [author_year |-> <<"P", "5">>, title |-> <<"T">>, canonical |-> trees,
       doi |-> None, base |-> smith, date |-> <<>>],
      [author_year |-> <<"P", "6">>, title |-> <<"T">>, canonical |-> trees,
       doi |-> None, base |-> smith, date |-> None],
      [author_year |-> <<"P", "7">>, title |-> <<"T">>, canonical |-> <<"n", "e", "t", "s">>,
       doi |-> <<>>, base |-> <<"l", "i">>, date |-> <<"0", "0", "2", "0", "1", "9">>] }

\* the attachments of one record, in PDF table order
PathLists == { <<>>, <<<<"b", ".", "p", "d", "f">>, <<"a", ".", "p", "d", "f">>>> }

RECURSIVE PdfTable(_, _)
PdfTable(att, i) ==
    IF i > Len(att) THEN <<>>
    ELSE [j \in 1..Len(att[i]) |-> [object_id |-> i, path |-> att[i][j]]]
         \o PdfTable(att, i + 1)

Store == [pubs |-> pubs, pdfs |-> pdfs]

\* citekeys typed by the user: title hash of "trees" and of "e", DOI hash of
\* "10.2/y", an unknown hash, another year, DOI hash of the empty DOI, no colon
TypedKeys ==
    { smith \o <<":", "2", "0", "2", "0", "v", "o">>,
      smith \o <<":", "2", "0", "2", "0", "i", "r">>,
      smith \o <<":", "2", "0", "2", "0", "z", "z">>,
      smith \o <<":", "2", "0", "1", "9", "v", "o">>,
      <<"l", "i", ":", "2", "0", "1", "9", "b", "a">>,
      smith }

\* the citekeys the listing shows for the current store
ListedKeys == {list_citations(Store)[i][2] : i \in 1..Len(list_citations(Store))}

InitDb ==
    /\ KeyUnused
    /\ CmdUnused
    /\ \E n \in 0..MaxRecs :
          \E p \in [1..n -> Shapes], att \in [1..n -> PathLists] :
              /\ pubs = p
              /\ pdfs = PdfTable(att, 1)
    /\ pc = "idle"
    /\ conn = 0
    /\ arg = None
    /\ lst = Raise(<<"unset">>)
    /\ fres = Raise(<<"unset">>)
    /\ viewer = None

\* get_citations: db = sqlite3.connect(dbpath)
GetConnect ==
    /\ pc = "idle"
    /\ conn' = conn + 1
    /\ pc' = "gc_try"
    /\ UNCHANGED <<pubs, pdfs, arg, lst, fres, viewer>>

\* get_citations: the try block, return reversed(list(list_citations(db)))
GetList ==
    /\ pc = "gc_try"
    /\ lst' = Ok(Reversed(list_citations(Store)))
    /\ pc' = "gc_finally"
    /\ UNCHANGED <<pubs, pdfs, conn, arg, fres, viewer>>

\* get_citations: the try block when the query raises
GetListRaises ==
    /\ pc = "gc_try"
    /\ lst' = Raise(<<"OperationalError">>)
    /\ pc' = "gc_finally"
    /\ UNCHANGED <<pubs, pdfs, conn, arg, fres, viewer>>

\* get_citations: finally: db.close(), then the return or the propagation
GetFinally ==
    /\ pc = "gc_finally"
    /\ conn' = conn - 1
    /\ pc' = "gc_exit"
    /\ UNCHANGED <<pubs, pdfs, arg, lst, fres, viewer>>

\* open_citekey: db = sqlite3.connect(dbpath)
OpenConnect ==
    /\ pc = "idle"
    /\ \E k \in TypedKeys \cup ListedKeys : arg' = k
    /\ conn' = conn + 1
    /\ pc' = "oc_try"
    /\ UNCHANGED <<pubs, pdfs, lst, fres, viewer>>

\* open_citekey: the try block, fpath = find_pdf(db, citekey)
OpenFind ==
    /\ pc = "oc_try"
    /\ fres' = find_pdf(Store, arg)
    /\ pc' = "oc_finally"
    /\ UNCHANGED <<pubs, pdfs, conn, arg, lst, viewer>>

\* open_citekey: the try block when a query raises
OpenFindRaises ==
    /\ pc = "oc_try"
    /\ fres' = Raise(<<"OperationalError">>)
    /\ pc' = "oc_finally"
    /\ UNCHANGED <<pubs, pdfs, conn, arg, lst, viewer>>

\* open_citekey closing the connection after a successful find_pdf only
OpenFinally_NoFinally ==
    /\ pc = "oc_finally"
    /\ conn' = IF IsOk(fres) THEN conn - 1 ELSE conn
    /\ pc' = IF IsOk(fres) THEN "oc_call" ELSE "oc_exit"
    /\ UNCHANGED <<pubs, pdfs, arg, lst, fres, viewer>>

\* open_citekey: finally: db.close(); an exception then leaves the function
OpenFinally ==
    /\ pc = "oc_finally"
    /\ conn' = conn - 1
    /\ pc' = IF IsOk(fres) THEN "oc_call" ELSE "oc_exit"
    /\ UNCHANGED <<pubs, pdfs, arg, lst, fres, viewer>>

\* open_citekey: subprocess.call([open_cmd, fpath])
OpenCall ==
    /\ pc = "oc_call"
    /\ viewer' = fres[2]
    /\ pc' = "oc_exit"
    /\ UNCHANGED <<pubs, pdfs, conn, arg, lst, fres>>

\* control is back in the caller; the next operation starts afresh
Returned ==
    /\ pc \in {"gc_exit", "oc_exit"}
    /\ pc' = "idle"
    /\ arg' = None
    /\ lst' = Raise(<<"unset">>)
    /\ fres' = Raise(<<"unset">>)
    /\ viewer' = None
    /\ UNCHANGED <<pubs, pdfs, conn>>

NextDb ==
    \/ (GetConnect /\ UNCHANGED <<keyVars, cmdVars>>)
    \/ (GetList /\ UNCHANGED <<keyVars, cmdVars>>)
    \/ (GetListRaises /\ UNCHANGED <<keyVars, cmdVars>>)
    \/ (GetFinally /\ UNCHANGED <<keyVars, cmdVars>>)
    \/ (OpenConnect /\ UNCHANGED <<keyVars, cmdVars>>)
    \/ (OpenFind /\ UNCHANGED <<keyVars, cmdVars>>)
    \/ (OpenFindRaises /\ UNCHANGED <<keyVars, cmdVars>>)
    \/ (OpenFinally /\ UNCHANGED <<keyVars, cmdVars>>)
    \/ (OpenCall /\ UNCHANGED <<keyVars, cmdVars>>)
    \/ (Returned /\ UNCHANGED <<keyVars, cmdVars>>)

SpecDb == InitDb /\ [][NextDb]_vars

(***************************************************************************)
(* Sublime Text Bibliography Command                                       *)
(***************************************************************************)
alphas == {Chr(n) : n \in (Ord("A")..Ord("Z")) \cup (Ord("a")..Ord("z"))}

nums == {Chr(n) : n \in Ord("0")..Ord("9")}

\* pyparsing's default whitespace: blank, tab, newline, carriage return
White == {" ", "tab", "newline", "return"}

\* Locations are 0-based as in Python: the character at loc is text[loc + 1].
\* ParserElement.preParse: skip whitespace
RECURSIVE PreParse(_, _)
PreParse(text, loc) ==
    IF loc < Len(text) /\ text[loc + 1] \in White THEN PreParse(text, loc + 1) ELSE loc

\* number of characters of chars at loc, at most max
RECURSIVE Run(_, _, _, _)
Run(text, loc, chars, max) ==
    IF max > 0 /\ loc < Len(text) /\ text[loc + 1] \in chars
    THEN 1 + Run(text, loc + 1, chars, max - 1)
    ELSE 0

\* Word(chars) and Word(chars, exact=n) without whitespace skipping: the
\* location after the word, -1 when it does not match; n is the number of
\* characters of chars found at loc, at most exact when exact is given
WordTaken(loc, n, exact) ==
    IF n < (IF exact > 0 THEN exact ELSE 1) THEN -1 ELSE loc + n

WordEnd(text, loc, chars, exact) ==
    WordTaken(loc, Run(text, loc, chars, IF exact > 0 THEN exact ELSE Len(text)), exact)

\* Literal(c) without whitespace skipping
LiteralEnd(text, loc, c) ==
    IF loc < Len(text) /\ text[loc + 1] = c THEN loc + 1 ELSE -1

\* citekey_expr = Combine(Word(alphas) + ":" + Word(nums, exact=4)
\*                        + Word(alphas, exact=2)), from loc (whitespace skipped):
\* each part is tried where the previous one ended (e), -1 once one failed
KeyColon(text, e) == IF e < 0 THEN -1 ELSE LiteralEnd(text, e, ":")

KeyYear(text, e) == IF e < 0 THEN -1 ELSE WordEnd(text, e, nums, 4)

KeyHash(text, e) == IF e < 0 THEN -1 ELSE WordEnd(text, e, alphas, 2)

CitekeyEnd(text, loc) ==
    KeyHash(text, KeyYear(text, KeyColon(text, WordEnd(text, loc, alphas, 0))))

\* Optional(",").suppress() at c (whitespace skipped)
AfterComma(text, c) == IF LiteralEnd(text, c, ",") < 0 THEN c ELSE c + 1

\* OneOrMore(citekey_expr.setParseAction(add_loc) + Optional(",").suppress()):
\* the tokens (locn, key) parsed from loc on and the location reached
RECURSIVE KeysFrom(_, _)
KeysMore(tok, rest) == [toks |-> <<tok>> \o rest.toks, end |-> rest.end]

KeysMatched(text, loc, pos, e) ==
    IF e < 0 THEN [toks |-> <<>>, end |-> loc]
    ELSE KeysMore(<<pos, SubSeq(text, pos + 1, e)>>,
                  KeysFrom(text, AfterComma(text, PreParse(text, e))))

KeysAt(text, loc, pos) == KeysMatched(text, loc, pos, CitekeyEnd(text, pos))

KeysFrom(text, loc) == KeysAt(text, loc, PreParse(text, loc))

\* citations_expr at loc (whitespace skipped): "{" keys "}"
GroupClosed(text, ks) ==
    [toks |-> ks.toks,
     end |-> IF ks.toks = <<>> THEN -1
             ELSE LiteralEnd(text, PreParse(text, ks.end), "}")]

ParseGroup(text, loc) ==
    IF LiteralEnd(text, loc, "{") < 0 THEN [toks |-> <<>>, end |-> -1]
    ELSE GroupClosed(text, KeysFrom(text, loc + 1))

\* citations_expr.scanString(text): the matches (tokens, start, end) from loc on
RECURSIVE ScanFrom(_, _)
ScanMatched(text, loc, preloc, m) ==
    IF m.end < 0 THEN ScanFrom(text, preloc + 1)
    ELSE IF m.end > loc
         THEN <<[toks |-> m.toks, start |-> preloc, end |-> m.end]>>
              \o ScanFrom(text, m.end)
         ELSE ScanFrom(text, preloc + 1)

ScanAt(text, loc, preloc) == ScanMatched(text, loc, preloc, ParseGroup(text, preloc))

ScanFrom(text, loc) ==
    IF loc > Len(text) THEN <<>> ELSE ScanAt(text, loc, PreParse(text, loc))

scanString(text) == ScanFrom(text, 0)

\* ", ".join(keys)
RECURSIVE JoinKeys(_)
JoinKeys(keys) ==
    IF keys = <<>> THEN <<>>
    ELSE IF Len(keys) = 1 THEN keys[1]
    ELSE keys[1] \o <<",", " ">> \o JoinKeys(Tail(keys))

format_citekeys(keys) == <<"{">> \o JoinKeys(keys) \o <<"}">>

MarkdownScheme == <<"p", "a", "p", "e", "r", "s", "2", ":", "/", "/", "p", "u", "b", "l", "i", "c", "a", "t", "i", "o", "n", "/", "c", "i", "t", "e", "k", "e", "y", "/">>

RECURSIVE format_markdown(_)
format_markdown(keys) ==
    IF keys = <<>> THEN <<>>
    ELSE LET link == <<"[">> \o keys[1] \o <<"]", "(">> \o MarkdownScheme
                     \o keys[1] \o <<")">>
         IN  IF Len(keys) = 1 THEN link
             ELSE link \o <<",", " ">> \o format_markdown(Tail(keys))

\* the inner loop of citekeys_at_cursor: the first token whose span holds offset
RECURSIVE KeyAt(_, _, _)
KeyAt(toks, offset, i) ==
    IF i > Len(toks) THEN None
    ELSE IF toks[i][1] <= offset /\ offset <= toks[i][1] + Len(toks[i][2])
         THEN toks[i][2]
         ELSE KeyAt(toks, offset, i + 1)

\* the outer loop of citekeys_at_cursor over the matches, from match i on
RECURSIVE AtCursorFrom(_, _, _, _)
AtCursorHit(ms, v, offset, i, hit) ==
    IF hit # None
    THEN <<hit, [n \in 1..Len(ms[i].toks) |-> ms[i].toks[n][2]],
           <<ms[i].start + v.line, ms[i].end + v.line>>>>
    ELSE AtCursorFrom(ms, v, offset, i + 1)

AtCursorFrom(ms, v, offset, i) ==
    IF i > Len(ms) THEN <<None, <<>>, <<v.a, v.b>>>>
    ELSE AtCursorHit(ms, v, offset, i,
                     IF ms[i].start <= offset /\ offset <= ms[i].end
                     THEN KeyAt(ms[i].toks, offset, 1) ELSE None)

citekeys_at_cursor(v) == AtCursorFrom(scanString(v.text), v, v.a - v.line, 1)

\* s.startswith(p) and s.endswith(p)
StartsWith(s, p) == Len(s) >= Len(p) /\ SubSeq(s, 1, Len(p)) = p

EndsWith(s, p) == Len(s) >= Len(p) /\ SubSeq(s, Len(s) - Len(p) + 1, Len(s)) = p

OpenPdf == <<":", " ", "O", "p", "e", "n", " ", "P", "D", "F">>

InsertWord == <<"I", "n", "s", "e", "r", "t">>

InsertMarkdown == <<"I", "n", "s", "e", "r", "t", " ", "M", "a", "r", "k", "d", "o", "w", "n", " ", "l", "i", "n", "k">>

Separator == <<"-", "-", "-", "-", "-", "-", "-", "-", "-", "-", "-", "-", "-", "-", "-", "-", "-">>

\* a < b for strings, character by character
RECURSIVE StrLess(_, _)
StrLess(a, b) ==
    IF b = <<>> THEN FALSE
    ELSE IF a = <<>> THEN TRUE
    ELSE IF a[1] = b[1] THEN StrLess(Tail(a), Tail(b))
    ELSE Ord(a[1]) < Ord(b[1])

\* the key of the sort: split_key(k)[1]
SortKey(k) == split_key(k)[2][2]

\* sorted(set(g), key=...): the keys of g once each, ascending by sort key; keys
\* with equal sort key come in the iteration order of the set, which is any
SortedSets(g) ==
    LET S == {g[i] : i \in 1..Len(g)}
        n == Cardinality(S)
    IN  {p \in [1..n -> S] :
            /\ \A i, j \in 1..n : i # j => p[i] # p[j]
            /\ \A i, j \in 1..n : i < j => ~StrLess(SortKey(p[j]), SortKey(p[i]))}

(***************************************************************************)
(* SpecCmd: the insert_citation command on bounded views                   *)
(***************************************************************************)
MaxSelections == 2

\* the Papers database of the command: three well-formed publications
CmdPubs ==
    << [author_year |-> <<"P", "1">>, title |-> <<"T">>, canonical |-> trees,
        doi |-> <<"1", "0", ".", "2", "/", "y">>, base |-> smith,
        date |-> <<"9", "9", "2", "0", "2", "0">>],
       [author_year |-> <<"P", "7">>, title |-> <<"T">>, canonical |-> <<"n", "e", "t", "s">>,
        doi |-> <<>>, base |-> <<"l", "i">>, date |-> <<"0", "0", "2", "0", "1", "9">>],
       [author_year |-> <<"P", "2">>, title |-> <<"T">>, canonical |-> <<"e">>,
        doi |-> None, base |-> smith, date |-> <<"9", "9", "2", "0", "2", "0", "0", "1">>] >>

CmdPdfs == << [object_id |-> 1, path |-> <<"a", ".", "p", "d", "f">>] >>

\* lines of text under the cursor
\*   {smith:2020ir, li:2019uz}
\*   a {li:2019uz,li:2019uz} b
\*   {li:2019uz} {smith:2020vo}
\*   no {li:2019} here
Lines ==
    { <<"{", "s", "m", "i", "t", "h", ":", "2", "0", "2", "0", "i", "r", ",", " ", "l", "i", ":", "2", "0", "1", "9", "u", "z", "}">>,
      <<"a", " ", "{", "l", "i", ":", "2", "0", "1", "9", "u", "z", ",", "l", "i", ":", "2", "0", "1", "9", "u", "z", "}", " ", "b">>,
      <<"{", "l", "i", ":", "2", "0", "1", "9", "u", "z", "}", " ", "{", "s", "m", "i", "t", "h", ":", "2", "0", "2", "0", "v", "o", "}">>,
      <<"n", "o", " ", "{", "l", "i", ":", "2", "0", "1", "9", "}", " ", "h", "e", "r", "e">> }

\* view.line(loc.a).a: the line starts at this point of the buffer
LineStarts == {40}

SelectionLengths == {0, 2}

InitCmd ==
    /\ KeyUnused
    /\ pubs = CmdPubs
    /\ pdfs = CmdPdfs
    /\ pc = "idle"
    /\ conn = 0
    /\ arg = None
    /\ lst = Raise(<<"unset">>)
    /\ fres = Raise(<<"unset">>)
    /\ viewer = None
    /\ \E text \in Lines, line \in LineStarts, n \in SelectionLengths :
          \E offset \in 0..Len(text) :
              view = [line |-> line, text |-> text, a |-> line + offset,
                      b |-> line + offset + n]
    /\ cPc = "start"
    /\ self_citations = <<>>
    /\ self_citekeys = <<>>
    /\ self_citekey = None
    /\ self_group = <<>>
    /\ self_location = <<0, 0>>
    /\ self_commands = <<>>
    /\ citetext = None
    /\ nsel = 0

\* InsertCitationCommand.run: got is what get_citations() returns, at what
\* citekeys_at_cursor() returns
RunWith(got, at) ==
    /\ self_citations' = [i \in 1..Len(got) |-> got[i][1]]
    /\ self_citekeys' = [i \in 1..Len(got) |-> got[i][2]]
    /\ self_citekey' = at[1]
    /\ self_group' = at[2]
    /\ self_location' = at[3]
    /\ self_commands' = IF at[1] # None
                         THEN <<at[1] \o OpenPdf, Separator>>
                         ELSE <<>>

CmdRun ==
    /\ cPc = "start"
    /\ RunWith(Reversed(list_citations(Store)), citekeys_at_cursor(view))
    /\ cPc' = "panel"
    /\ UNCHANGED <<view, citetext, nsel>>
    /\ UNCHANGED <<keyVars, dbVars>>

\* on_citekey(item) for a citation of the list: item >= len(self.commands)
OnCitekeySelect ==
    /\ cPc = "panel"
    /\ nsel < MaxSelections
    /\ \E item \in Len(self_commands)..(Len(self_commands) + Len(self_citations) - 1) :
          LET k == self_citekeys[item - Len(self_commands) + 1] IN
          /\ self_citekey' = k
          /\ \E g \in (IF \E i \in 1..Len(self_group) : self_group[i] = k
                        THEN {self_group}
                        ELSE SortedSets(Append(self_group, k))) :
                /\ self_group' = g
                /\ self_commands' = << InsertWord \o <<" ", "{">> \o JoinKeys(g) \o <<"}">>,
                                  k \o OpenPdf,
                                  InsertMarkdown,
                                  Separator >>
    /\ nsel' = nsel + 1
    /\ UNCHANGED <<view, cPc, self_citations, self_citekeys, self_location, citetext>>
    /\ UNCHANGED <<keyVars, dbVars>>

\* on_citekey(item) for an "Insert ..." command
OnCitekeyInsert ==
    /\ cPc = "panel"
    /\ \E item \in 0..(Len(self_commands) - 1) :
          /\ StartsWith(self_commands[item + 1], InsertWord)
          /\ citetext' = IF StartsWith(self_commands[item + 1], InsertMarkdown)
                          THEN format_markdown(self_group)
                          ELSE format_citekeys(self_group)
    /\ cPc' = "timeout"
    /\ UNCHANGED <<view, self_citations, self_citekeys, self_citekey, self_group, self_location, self_commands, nsel>>
    /\ UNCHANGED <<keyVars, dbVars>>

\* InsertCitationTextCommand.run(edit, citetext, loc), run by the timeout
InsertCitationText ==
    /\ cPc = "timeout"
    /\ LET a == self_location[1] - view.line
           b == self_location[2] - view.line
       IN  view' = [view EXCEPT
                       !.text = SubSeq(view.text, 1, a) \o citetext
                                \o SubSeq(view.text, b + 1, Len(view.text))]
    /\ cPc' = "done"
    /\ UNCHANGED <<self_citations, self_citekeys, self_citekey, self_group, self_location, self_commands, citetext, nsel>>
    /\ UNCHANGED <<keyVars, dbVars>>

\* on_citekey(item) for the "...: Open PDF" command: open_citekey(self.citekey)
OnCitekeyOpenPdf ==
    /\ cPc = "panel"
    /\ \E item \in 0..(Len(self_commands) - 1) :
          /\ ~StartsWith(self_commands[item + 1], InsertWord)
          /\ EndsWith(self_commands[item + 1], OpenPdf)
    /\ arg' = self_citekey
    /\ fres' = find_pdf(Store, self_citekey)
    /\ viewer' = IF IsOk(fres') THEN fres'[2] ELSE None
    /\ cPc' = IF IsOk(fres') THEN "done" ELSE "error"
    /\ UNCHANGED <<pubs, pdfs, pc, conn, lst>>
    /\ UNCHANGED <<view, self_citations, self_citekeys, self_citekey, self_group, self_location, self_commands,
                   citetext, nsel>>
    /\ UNCHANGED keyVars

\* on_citekey(item) for the separator line, and for -1 when the panel is
\* cancelled: self.commands[-1] is the separator, or an IndexError
OnCitekeyOther ==
    /\ cPc = "panel"
    /\ cPc' = IF self_commands = <<>> THEN "error" ELSE "done"
    /\ UNCHANGED <<view, self_citations, self_citekeys, self_citekey, self_group, self_location, self_commands,
                   citetext, nsel>>
    /\ UNCHANGED <<keyVars, dbVars>>

NextCmd ==
    \/ CmdRun
    \/ OnCitekeySelect
    \/ OnCitekeyInsert
    \/ InsertCitationText
    \/ OnCitekeyOpenPdf
    \/ OnCitekeyOther

SpecCmd == InitCmd /\ [][NextCmd]_vars

(***************************************************************************)
(* Properties of the codec (SpecKey)                                       *)
(***************************************************************************)
Lower ==
    <<"a", "b", "c", "d", "e", "f", "g", "h", "i", "j", "k", "l", "m",
      "n", "o", "p", "q", "r", "s", "t", "u", "v", "w", "x", "y", "z">>

TitleTable == <<"t", "u", "v", "w">>

DoiTable == <<"b", "c", "d", "e", "f", "g", "h", "i", "j", "k">>

\* the two characters selected by n2: table entry n2 div 26, letter n2 mod 26
TwoChars(table, n2) == <<table[(n2 \div 26) + 1], Lower[(n2 % 26) + 1]>>

Hashed == kPc \in {"hashed", "keyed", "split"}

\* C7 as stated: both hash functions reduce the CRC-32 value c modulo 26 * 4
\* and index a 4-letter suffix table with n2 div 26, the 26-letter lowercase
\* alphabet with n2 mod 26.
C7_BothHashesMod104 ==
    Hashed =>
        /\ kIn.title # None =>
              kTitleHash = TwoChars(title_suffix, Mod32(gen_crc(kIn.title), 26 * 4))
        /\ kIn.doi # None =>
              kDoiHash = TwoChars(doi_suffix, Mod32(gen_crc(kIn.doi), 26 * 4))

\* C7 amended: for a non-null input with CRC-32 value c, gen_title_hash
\* returns entry (n2 div 26) of the 4-letter table t..w followed by letter
\* (n2 mod 26) with n2 = c mod (26 * 4), one of 104 strings; gen_doi_hash
\* returns entry (n2 div 26) of the 10-letter table b..k followed by letter
\* (n2 mod 26) with n2 = c mod (26 * 10), one of 260 strings.
C7_HashTables ==
    Hashed =>
        /\ kIn.title # None =>
              /\ kTitleHash = TwoChars(TitleTable, Mod32(gen_crc(kIn.title), 26 * 4))
              /\ kTitleHash \in {<<x, y>> : x \in {"t", "u", "v", "w"},
                                            y \in {Lower[i] : i \in 1..26}}
        /\ kIn.doi # None =>
              /\ kDoiHash = TwoChars(DoiTable, Mod32(gen_crc(kIn.doi), 26 * 10))
              /\ kDoiHash \in {<<x, y>> : x \in {DoiTable[i] : i \in 1..10},
                                          y \in {Lower[i] : i \in 1..26}}
        /\ Cardinality({<<x, y>> : x \in {"t", "u", "v", "w"},
                                   y \in {Lower[i] : i \in 1..26}}) = 104
        /\ Cardinality({<<x, y>> : x \in {DoiTable[i] : i \in 1..10},
                                   y \in {Lower[i] : i \in 1..26}}) = 260

\* both hashes computed from non-null inputs, the DOI's CRC-32 value falling
\* beyond 26 * 4 modulo 26 * 10
C7_Witness ==
    /\ kPc = "hashed"
    /\ kIn.title # None
    /\ kIn.doi # None
    /\ Mod32(gen_crc(kIn.doi), 26 * 10) >= 26 * 4
    /\ kDoiHash[1] \in {"f", "g", "h", "i", "j", "k"}

\* the hash that the round trip is claimed to give back
ExpectedHash(doi, title) ==
    IF doi # None /\ doi # <<>> THEN gen_doi_hash(doi) ELSE gen_title_hash(title)

\* C6: split_key(gen_citekey(base, year, doi, title)) = (base, year, h) with
\* h = gen_doi_hash(doi) for a present, non-empty doi and gen_title_hash(title)
\* otherwise, doi and title each possibly absent.
C6_RoundTrip ==
    kPc = "split" =>
        /\ IsOk(kSplit)
        /\ kSplit[2] = <<kIn.base, kIn.year, ExpectedHash(kIn.doi, kIn.title)>>

\* the part of the produced citekey after base, ":" and year
HashPart(key, base, year) == SubSeq(key, Len(base) + 1 + Len(year) + 1, Len(key))

\* C8: the hash part of the produced citekey is gen_doi_hash(doi) whenever doi
\* is present and non-empty, whatever the title, and gen_title_hash(title)
\* whenever doi is absent or empty; the result is base + ":" + year + hash.
C8_DoiPreferred ==
    kPc \in {"keyed", "split"} =>
        LET h == ExpectedHash(kIn.doi, kIn.title) IN
        /\ HashPart(kKey, kIn.base, kIn.year) = h
        /\ kKey = kIn.base \o <<":">> \o kIn.year \o h

(***************************************************************************)
(* Properties of the database access (SpecDb)                              *)
(***************************************************************************)
Max(a, b) == IF a > b THEN a ELSE b

\* characters 3 to 6 of a publication date, as many as there are
YearSubstring(date) == [i \in 1..Min(4, Max(0, Len(date) - 2)) |-> date[i + 2]]

HasPath(i) == \E j \in 1..Len(pdfs) : pdfs[j].object_id = i

FirstPath(i) ==
    pdfs[CHOOSE j \in 1..Len(pdfs) :
            /\ pdfs[j].object_id = i
            /\ \A l \in 1..(j - 1) : pdfs[l].object_id # i].path

\* record i passes the coarse base/year filter and one of its hashes is h
Matches(i, base, year, h) ==
    /\ pubs[i].base = base
    /\ pubs[i].date # None
    /\ YearSubstring(pubs[i].date) = year
    /\ \/ gen_title_hash(pubs[i].canonical) = h
       \/ gen_doi_hash(pubs[i].doi) = h

StoreError == Raise(<<"OperationalError">>)

\* find_pdf has run on a citekey that splits, and the store answered
Resolved == pc = "oc_finally" /\ fres # StoreError /\ IsOk(split_key(arg))

\* C1: for a citekey that splits into (base, year, hash), find_pdf returns
\* basepath joined with the first attachment path of the first record, in
\* store order, that passes the base/year filter, matches the hash by title
\* or DOI and has an attachment; records without attachment are passed over;
\* it raises the citekey-bearing 'No matching PDF' exactly when there is no
\* such record.
C1_FindPdfFirstMatchWithPath ==
    Resolved =>
        LET k == split_key(arg)[2]
            good == {i \in 1..Len(pubs) : Matches(i, k[1], k[2], k[3]) /\ HasPath(i)}
        IN  IF good = {}
            THEN fres = NoMatchingPdf(arg)
            ELSE LET first == CHOOSE i \in good : \A o \in good : i <= o
                 IN  fres = Ok(basepath \o FirstPath(first))

\* a hash-matching record without attachment was passed over and a later
\* record with two attachments resolved the citekey
C1_Witness ==
    /\ Resolved
    /\ IsOk(fres)
    /\ LET k == split_key(arg)[2] IN
       \E i, o \in 1..Len(pubs) :
           /\ i < o
           /\ Matches(i, k[1], k[2], k[3]) /\ ~HasPath(i)
           /\ Matches(o, k[1], k[2], k[3]) /\ HasPath(o)

\* the citekey under which the listing shows record i (its date is not NULL)
OwnKey(i) ==
    gen_citekey(pubs[i].base, PySlice(pubs[i].date, 2, 6), pubs[i].doi,
                pubs[i].canonical)

RowLabel(i) == Label(pubs[i].author_year, pubs[i].title)

Listed == {lst[2][i] : i \in 1..Len(lst[2])}

\* C2: a record whose publication_date has fewer than 6 characters is skipped
\* by list_citations and yields no pair, while every other well-formed record
\* of the store yields its pair.
C2_ShortDateSkipped ==
    (pc = "gc_finally" /\ IsOk(lst)) =>
        \A i \in 1..Len(pubs) :
            /\ (pubs[i].date # None /\ Len(pubs[i].date) < 6) =>
                  \A x \in Listed : x[1] # RowLabel(i)
            /\ (pubs[i].date # None /\ Len(pubs[i].date) >= 6) =>
                  <<RowLabel(i), OwnKey(i)>> \in Listed

\* C5: the connection opened by get_citations or open_citekey is closed when
\* control leaves the operation, on success and on every exception; the
\* viewer is launched only with the connection closed and find_pdf succeeded.
C5_ConnectionClosedOnEveryExit ==
    /\ pc \in {"gc_try", "gc_finally", "oc_try", "oc_finally"} => conn = 1
    /\ pc \in {"idle", "gc_exit", "oc_call", "oc_exit"} => conn = 0
    /\ pc = "oc_call" => IsOk(fres)
    /\ viewer # None => conn = 0 /\ IsOk(fres) /\ viewer = fres[2]
    /\ (pc = "oc_exit" /\ ~IsOk(fres)) => viewer = None

\* open_citekey has been left by the exception of a malformed citekey
C5_Witness ==
    /\ pc = "oc_exit"
    /\ fres = Raise(<<"ValueError">>)
    /\ conn = 0
    /\ viewer = None

\* C9: if list_citations emits record r with citekey k and r has an
\* attachment, find_pdf(db, k) on the same store returns a path.
C9_ListedKeyResolves ==
    (pc = "oc_finally" /\ fres # StoreError) =>
        ((\E i \in 1..Len(pubs) :
              pubs[i].date # None /\ OwnKey(i) = arg /\ HasPath(i))
         => IsOk(fres))

\* C10 as stated: a path returned by find_pdf(db, k) is attached to a record
\* whose own citekey, as the listing computes it, is k.
C10_ReturnedRecordListedUnderKey ==
    (pc = "oc_finally" /\ IsOk(fres)) =>
        \E i \in 1..Len(pubs) :
            /\ pubs[i].date # None
            /\ OwnKey(i) = arg
            /\ \E j \in 1..Len(pdfs) :
                  pdfs[j].object_id = i /\ basepath \o pdfs[j].path = fres[2]

\* C10 amended: a path returned by find_pdf(db, k) is attached to a record
\* with the base and year of k one of whose two hashes, of the title or of
\* the DOI, is the hash of k; k is that record's own citekey exactly when the
\* hash of k is the one gen_citekey uses for it (the DOI's when the DOI is
\* present and non-empty, the title's otherwise).
C10_ReturnedRecordMatchesEitherHash ==
    (pc = "oc_finally" /\ IsOk(fres)) =>
        LET k == split_key(arg)[2] IN
        \E i \in 1..Len(pubs) :
            /\ Matches(i, k[1], k[2], k[3])
            /\ \E j \in 1..Len(pdfs) :
                  pdfs[j].object_id = i /\ basepath \o pdfs[j].path = fres[2]
            /\ OwnKey(i) = arg <=> k[3] = ExpectedHash(pubs[i].doi, pubs[i].canonical)

\* a path was returned although the listing shows no record under the citekey
C10_Witness ==
    /\ pc = "oc_finally"
    /\ IsOk(fres)
    /\ \A i \in 1..Len(pubs) : pubs[i].date = None \/ OwnKey(i) # arg

(***************************************************************************)
(* Properties of the command (SpecCmd)                                     *)
(***************************************************************************)
Digit(c) == Ord(c) - Ord("0")

\* the number written by the four characters after the colon of a citekey
YearOf(k) ==
    LET c == IndexFrom(k, ":", 1) IN
    (1000 * Digit(k[c + 1])) + (100 * Digit(k[c + 2])) + (10 * Digit(k[c + 3]))
    + Digit(k[c + 4])

NoDuplicates(g) == \A i, j \in 1..Len(g) : i # j => g[i] # g[j]

SortedByYear(g) == \A i, j \in 1..Len(g) : i < j => YearOf(g[i]) <= YearOf(g[j])

\* C3: after run() and the on_citekey selections that follow, whatever group
\* was parsed under the cursor and whether the selected key was new to it or
\* already in it, the citation group has no duplicate keys and is sorted
\* ascending by year, and so is the text an 'Insert' selection produces.
\* (Stated for the states after at least one selection of a citation.)
C3_GroupSortedNoDuplicates ==
    (cPc \in {"panel", "timeout", "done"} /\ nsel >= 1) =>
        /\ NoDuplicates(self_group)
        /\ SortedByYear(self_group)
        /\ (citetext # None /\ citetext[1] = "{") =>
              citetext = format_citekeys(self_group)

\* the offset of the cursor in its line, and the matches of the scan
CursorOffset == view.a - view.line

Groups == scanString(view.text)

InGroup(i) == Groups[i].start <= CursorOffset /\ CursorOffset <= Groups[i].end

InToken(tok) == tok[1] <= CursorOffset /\ CursorOffset <= tok[1] + Len(tok[2])

\* C4: with the cursor inside the span of a citation group, citekeys_at_cursor
\* returns that group's keys and span and the key whose token holds the
\* cursor, or no key when the cursor is in the group but in none of its
\* tokens; it returns (no key, empty group, the cursor's own span) only when
\* no group holds the cursor.
C4_GroupAtCursor ==
    (cPc = "panel" /\ nsel = 0) =>
        IF \E i \in 1..Len(Groups) : InGroup(i)
        THEN \E i \in 1..Len(Groups) :
                /\ InGroup(i)
                /\ self_group = [n \in 1..Len(Groups[i].toks) |-> Groups[i].toks[n][2]]
                /\ self_location = <<Groups[i].start + view.line, Groups[i].end + view.line>>
                /\ IF \E n \in 1..Len(Groups[i].toks) : InToken(Groups[i].toks[n])
                   THEN \E n \in 1..Len(Groups[i].toks) :
                           InToken(Groups[i].toks[n]) /\ self_citekey = Groups[i].toks[n][2]
                   ELSE self_citekey = None
        ELSE /\ self_citekey = None
             /\ self_group = <<>>
             /\ self_location = <<view.a, view.b>>

====
